---- MODULE Spec2Model ----
(***************************************************************************)
(* Model of lib/validation/processor.js (govuk-casa): the page validation  *)
(* processor.  One invocation dispatches one unit (promise) per key of     *)
(* fieldValidators through queueValidator, joins them with Promise.all,    *)
(* and hands the fulfilled values to gatherErrors, which groups the error  *)
(* records by field and resolves or rejects the resulting promise.         *)
(***************************************************************************)
EXTENDS Integers, Sequences, FiniteSets, TLC

\* ---------------------------------------------------------------- bounds
\* Longest list of error records a unit settles with.
MaxListLen == 2

\* Field names used as keys of fieldValidators and as record.field values.
Fields == {"a", "b"}

\* Marker for a record that has no `field` attribute (e.field is undefined).
Absent == "<absent>"

\* The waypointId and journeyContext options a caller may pass.
WaypointIds == {"wp1", "wp2"}
JourneyContexts == {"ctx1", "ctx2"}

\* fieldValidators[field]: the validator spec configured for a field.
ValidatorOf(f) == <<"validators", f>>

\* ------------------------------------------------------------------ state
VARIABLES
  pc,              \* "idle" before the call, "invoked" after
  waypointId,      \* the waypointId option
  journeyContext,  \* the journeyContext option
  fieldValidators, \* keys of fieldValidators in enumeration order
  reduceErrors,    \* the reduceErrors option
  calls,           \* arguments of each queueValidator call, in call order
  plan,            \* what each dispatched unit will do
  validatorQueue,  \* the unit promises, in dispatch order
  allPromise,      \* the promise returned by Promise.all(validatorQueue)
  jobs,            \* the microtask queue (promise reaction jobs)
  gatherRuns,      \* how many times gatherErrors has been called
  outcome,         \* the promise returned to the caller
  runs             \* two further invocations, which may overlap (TwoSpec)

\* The state of the invocation that Spec follows step by step.
engine == <<pc, waypointId, journeyContext, fieldValidators, reduceErrors, calls,
            plan, validatorQueue, allPromise, jobs, gatherRuns, outcome>>

vars == <<engine, runs>>

\* What the caller passed: nothing after the call assigns these.
inputs == <<pc, waypointId, journeyContext, fieldValidators, reduceErrors, calls, plan>>

\* ---------------------------------------------------------------- values
\* A JS value a unit settles with.  type "list" is an Array of elements;
\* type "record" is a single (non-array) error record; "undefined" and
\* "falsy" (false) are the absent results.
Undefined == [type |-> "undefined", items |-> <<>>]
Falsy == [type |-> "falsy", items |-> <<>>]

\* An error record {field, ...}; its validator-defined attributes are
\* summarised by id, which names the unit that produced it and its position
\* in that unit's list (position 0: the record is the whole, non-list result).
ErrorRecord(f, u, p) == [field |-> f, id |-> 10 * u + p]

\* The records unit u may put at position p of its list: a record for any
\* field, or one without a `field` attribute.
ElementsAt(u, p) == {ErrorRecord(f, u, p) : f \in Fields \cup {Absent}}

RECURSIVE ListsOfLen(_, _)
ListsOfLen(u, n) ==
  IF n = 0 THEN {<<>>}
  ELSE {Append(l, e) : l \in ListsOfLen(u, n - 1), e \in ElementsAt(u, n)}

ListsOf(u) == UNION {ListsOfLen(u, n) : n \in 0..MaxListLen}

List(items) == [type |-> "list", items |-> items]

\* Values a unit for field f at queue index u may resolve with.
ResolveValues(u, f) ==
  {Undefined, Falsy, [type |-> "record", items |-> <<ErrorRecord(f, u, 0)>>]}
    \cup {List(l) : l \in ListsOf(u)}

\* Values a unit for field f may reject with: a non-empty list of error
\* records {field: f, ...}.
RejectValues(u, f) ==
  {List([p \in 1..n |-> ErrorRecord(f, u, p)]) : n \in 1..MaxListLen}

\* The behaviours of the unit queueValidator pushes for field f.
UnitPlans(u, f) ==
  {[kind |-> "resolve", value |-> v] : v \in ResolveValues(u, f)}
    \cup {[kind |-> "reject", value |-> v] : v \in RejectValues(u, f)}
    \cup {[kind |-> "never", value |-> Undefined]}

\* fieldValidators: its keys in enumeration order (distinct field names).
KeyLists ==
  {<<>>} \cup {<<f>> : f \in Fields}
    \cup {<<p[1], p[2]>> : p \in {q \in Fields \X Fields : q[1] # q[2]}}

RECURSIVE PlansUpTo(_, _)
PlansUpTo(keys, n) ==
  IF n = 0 THEN {<<>>}
  ELSE {Append(pl, p) : pl \in PlansUpTo(keys, n - 1), p \in UnitPlans(n, keys[n])}

\* One plan per dispatched unit, in dispatch order.
PlansFor(keys) == PlansUpTo(keys, Len(keys))

\* ----------------------------------------------------- settlement payloads
NoPayload == [kind |-> "none", grouped |-> <<>>, raw |-> <<>>]
MappingPayload(g) == [kind |-> "mapping", grouped |-> g, raw |-> <<>>]
RawPayload(v) == [kind |-> v.type, grouped |-> <<>>, raw |-> v.items]

Settled(state, payload) == [state |-> state, payload |-> payload]
PendingPromise == Settled("pending", NoPayload)
NotCreated == Settled("none", NoPayload)

\* ------------------------------------------------------------ gatherErrors
\* A plausible slip: a single record is taken for a one-element array.
ArrayIsArray_AcceptsRecord(v) == v.type \in {"list", "record"}

\* Array.isArray(errors)
ArrayIsArray(v) == v.type = "list"

\* Property key used by grouped[e.field]: an undefined field is coerced to
\* the string "undefined".
PropertyKey(f) == IF f = Absent THEN "undefined" ELSE f

HasKey(grouped, k) == \E j \in 1..Len(grouped) : grouped[j].key = k

\* A plausible slip: a record is filed under the field of the unit that
\* produced it (the key of fieldValidators), not under its own field.
PushError_ByUnitField(grouped, e) ==
  LET k == fieldValidators[e.id \div 10] IN
  IF HasKey(grouped, k)
  THEN [j \in 1..Len(grouped) |->
          IF grouped[j].key = k
          THEN [key |-> k, errors |-> Append(grouped[j].errors, e)]
          ELSE grouped[j]]
  ELSE Append(grouped, [key |-> k, errors |-> <<e>>])

\* A plausible slip: the list of a field is re-created for every record.
PushError_Overwrites(grouped, e) ==
  LET k == PropertyKey(e.field) IN
  IF HasKey(grouped, k)
  THEN [j \in 1..Len(grouped) |->
          IF grouped[j].key = k THEN [key |-> k, errors |-> <<e>>] ELSE grouped[j]]
  ELSE Append(grouped, [key |-> k, errors |-> <<e>>])

\* if (!grouped[e.field]) grouped[e.field] = []; grouped[e.field].push(e)
PushError(grouped, e) ==
  LET k == PropertyKey(e.field) IN
  IF HasKey(grouped, k)
  THEN [j \in 1..Len(grouped) |->
          IF grouped[j].key = k
          THEN [key |-> k, errors |-> Append(grouped[j].errors, e)]
          ELSE grouped[j]]
  ELSE Append(grouped, [key |-> k, errors |-> <<e>>])

\* errors.forEach((e) => {...}) over one unit result
RECURSIVE GroupErrors(_, _)
GroupErrors(grouped, errors) ==
  IF errors = <<>> THEN grouped
  ELSE GroupErrors(PushError(grouped, Head(errors)), Tail(errors))

\* errorsList.forEach((errors) => { if (Array.isArray(errors)) ... })
RECURSIVE GroupAll(_, _)
GroupAll(grouped, errorsList) ==
  IF errorsList = <<>> THEN grouped
  ELSE GroupAll(
         IF ArrayIsArray(Head(errorsList))
         THEN GroupErrors(grouped, Head(errorsList).items)
         ELSE grouped,
         Tail(errorsList))

\* A plausible slip: the last record of each field is kept, not the first.
reduceGroupedErrors_Last(errors) ==
  [j \in 1..Len(errors) |->
     [key |-> errors[j].key, errors |-> <<errors[j].errors[Len(errors[j].errors)]>>]]

reduceGroupedErrors(errors) ==
  [j \in 1..Len(errors) |->
     [key |-> errors[j].key, errors |-> <<errors[j].errors[1]>>]]

\* A plausible slip: the emptiness test looks at errorsList, not at grouped.
gatherErrors_TestsErrorsList(errorsList, reduce) ==
  LET all == GroupAll(<<>>, errorsList)
      grouped == IF reduce THEN reduceGroupedErrors(all) ELSE all
  IN IF Len(errorsList) # 0
     THEN Settled("rejected", MappingPayload(grouped))
     ELSE Settled("resolved", NoPayload)

\* A plausible slip: grouped is hoisted out of gatherErrors and shared, so a
\* call starts from what an earlier call of another invocation left in it.
gatherErrors_SharedGrouped(errorsList, reduce) ==
  LET left == IF runs[1].out.payload.kind = "mapping" THEN runs[1].out.payload.grouped
              ELSE IF runs[2].out.payload.kind = "mapping" THEN runs[2].out.payload.grouped
              ELSE <<>>
      all == GroupAll(left, errorsList)
      grouped == IF reduce THEN reduceGroupedErrors(all) ELSE all
  IN IF Len(grouped) # 0
     THEN Settled("rejected", MappingPayload(grouped))
     ELSE Settled("resolved", NoPayload)

\* The promise gatherErrors returns: rejected with grouped when grouped has
\* keys, resolved without a value otherwise.
gatherErrors(errorsList, reduce) ==
  LET all == GroupAll(<<>>, errorsList)
      grouped == IF reduce THEN reduceGroupedErrors(all) ELSE all
  IN IF Len(grouped) # 0
     THEN Settled("rejected", MappingPayload(grouped))
     ELSE Settled("resolved", NoPayload)

\* ------------------------------------------------------------------ steps
NoAll == [state |-> "none", values |-> <<>>, remaining |-> 0, reason |-> Undefined]

\* An invocation that has not been made yet.
IdleRun ==
  [state |-> "idle", keys |-> <<>>, reduce |-> FALSE, plan |-> <<>>,
   queue |-> <<>>, all |-> NoAll, out |-> NotCreated]

Init ==
  /\ pc = "idle"
  /\ waypointId = "wp1"
  /\ journeyContext = "ctx1"
  /\ gatherRuns = 0
  /\ fieldValidators = <<>>
  /\ reduceErrors = FALSE
  /\ calls = <<>>
  /\ plan = <<>>
  /\ validatorQueue = <<>>
  /\ allPromise = NoAll
  /\ jobs = <<>>
  /\ outcome = NotCreated
  /\ runs = [k \in {1, 2} |-> IdleRun]

\* queueValidator(validatorQueue, waypointId, journeyContext, field, spec):
\* pushes one pending unit for the field.
queueValidator(queue, field) == Append(queue, Settled("pending", NoPayload))

RECURSIVE Dispatch(_, _)
\* Object.keys(fieldValidators).forEach((field) => queueValidator(...))
Dispatch(queue, keys) ==
  IF keys = <<>> THEN queue
  ELSE Dispatch(queueValidator(queue, Head(keys)), Tail(keys))

\* A plausible slip: the calls are made in reverse key order.
DispatchCalls_Reversed(wp, ctx, keys) ==
  [i \in 1..Len(keys) |->
     [waypointId |-> wp, journeyContext |-> ctx,
      field |-> keys[Len(keys) + 1 - i],
      validators |-> ValidatorOf(keys[Len(keys) + 1 - i])]]

\* A plausible slip: the units of later fields get a fresh default context
\* instead of the caller's journeyContext.
DispatchCalls_DefaultContext(wp, ctx, keys) ==
  [i \in 1..Len(keys) |->
     [waypointId |-> wp, journeyContext |-> IF i = 1 THEN ctx ELSE "ctx1",
      field |-> keys[i], validators |-> ValidatorOf(keys[i])]]

\* The arguments of the queueValidator calls that loop makes, in call order.
DispatchCalls(wp, ctx, keys) ==
  [i \in 1..Len(keys) |->
     [waypointId |-> wp, journeyContext |-> ctx,
      field |-> keys[i], validators |-> ValidatorOf(keys[i])]]

\* Promise.all(queue): pending, with one slot per unit.
PromiseAll(queue) ==
  [state |-> "pending", values |-> [i \in 1..Len(queue) |-> Undefined],
   remaining |-> Len(queue), reason |-> Undefined]

\* A plausible slip: the empty queue is not short-circuited.
ResultingPromise_AlwaysWaits(queue) == PendingPromise

\* if (validatorQueue.length) ... else return Promise.resolve()
ResultingPromise(queue) ==
  IF Len(queue) # 0 THEN PendingPromise ELSE Settled("resolved", NoPayload)

Invoke(wp, ctx, keys, reduce, pl) ==
  /\ pc = "idle"
  /\ pc' = "invoked"
  /\ waypointId' = wp
  /\ journeyContext' = ctx
  /\ fieldValidators' = keys
  /\ reduceErrors' = reduce
  /\ calls' = DispatchCalls(wp, ctx, keys)
  /\ plan' = pl
  /\ validatorQueue' = Dispatch(<<>>, keys)
  /\ allPromise' = IF Len(validatorQueue') # 0 THEN PromiseAll(validatorQueue')
                   ELSE NoAll
  /\ outcome' = ResultingPromise(validatorQueue')
  /\ UNCHANGED <<jobs, gatherRuns, runs>>

\* A dispatched unit settles as its validator decides; the reaction that
\* Promise.all registered on it is queued as a microtask.
SettleUnit(i) ==
  /\ pc = "invoked"
  /\ i \in 1..Len(validatorQueue)
  /\ validatorQueue[i].state = "pending"
  /\ plan[i].kind # "never"
  /\ validatorQueue' =
       [validatorQueue EXCEPT ![i] =
          Settled(IF plan[i].kind = "resolve" THEN "resolved" ELSE "rejected",
                  RawPayload(plan[i].value))]
  /\ jobs' = Append(jobs, [type |-> "element", index |-> i])
  /\ UNCHANGED <<inputs, allPromise, gatherRuns, outcome, runs>>

\* A plausible slip: the join never notices that the last unit fulfilled.
AllResolveElementFn_NeverFulfils(all, i, v) ==
  IF all.state # "pending" THEN all
  ELSE [all EXCEPT !.values[i] = v, !.remaining = all.remaining - 1]

\* A plausible slip: fulfilment values are kept in settlement order, not at
\* the unit's index.
AllResolveElementFn_SettlementOrder(all, i, v) ==
  IF all.state # "pending" THEN all
  ELSE LET slot == Len(all.values) - all.remaining + 1
           rem == all.remaining - 1
       IN [state |-> IF rem = 0 THEN "fulfilled" ELSE "pending",
           values |-> [all.values EXCEPT ![slot] = v],
           remaining |-> rem, reason |-> all.reason]

\* Promise.all's resolve-element function for unit i.
AllResolveElementFn(all, i, v) ==
  IF all.state # "pending" THEN all
  ELSE LET vals == [all.values EXCEPT ![i] = v]
           rem == all.remaining - 1
       IN [state |-> IF rem = 0 THEN "fulfilled" ELSE "pending",
           values |-> vals, remaining |-> rem, reason |-> all.reason]

\* Promise.all's reject function: the first rejection settles the join.
AllRejectFn(all, v) ==
  IF all.state # "pending" THEN all
  ELSE [all EXCEPT !.state = "rejected", !.reason = v]

\* Settling Promise.all queues the reaction registered by .then(gatherErrors).
JobsAfter(all, newAll, rest) ==
  IF all.state = "pending" /\ newAll.state # "pending"
  THEN Append(rest, [type |-> "then", index |-> 0])
  ELSE rest

AllResolveElement ==
  /\ jobs # <<>>
  /\ Head(jobs).type = "element"
  /\ validatorQueue[Head(jobs).index].state = "resolved"
  /\ LET i == Head(jobs).index
         v == plan[i].value
     IN /\ allPromise' = AllResolveElementFn(allPromise, i, v)
        /\ jobs' = JobsAfter(allPromise, allPromise', Tail(jobs))
  /\ UNCHANGED <<inputs, validatorQueue, gatherRuns, outcome, runs>>

AllReject ==
  /\ jobs # <<>>
  /\ Head(jobs).type = "element"
  /\ validatorQueue[Head(jobs).index].state = "rejected"
  /\ LET i == Head(jobs).index
     IN /\ allPromise' = AllRejectFn(allPromise, plan[i].value)
        /\ jobs' = JobsAfter(allPromise, allPromise', Tail(jobs))
  /\ UNCHANGED <<inputs, validatorQueue, gatherRuns, outcome, runs>>

\* .then(gatherErrors): onFulfilled runs gatherErrors on the values; with no
\* onRejected handler the join's rejection reason passes through unchanged.
ThenReaction(all, reduce) ==
  IF all.state = "fulfilled" THEN gatherErrors(all.values, reduce)
  ELSE Settled("rejected", RawPayload(all.reason))

\* gatherErrors is the onFulfilled handler: it is called only when the join
\* fulfilled.
GatherCalls(all) == IF all.state = "fulfilled" THEN 1 ELSE 0

Then ==
  /\ jobs # <<>>
  /\ Head(jobs).type = "then"
  /\ outcome' = ThenReaction(allPromise, reduceErrors)
  /\ gatherRuns' = gatherRuns + GatherCalls(allPromise)
  /\ jobs' = Tail(jobs)
  /\ UNCHANGED <<inputs, validatorQueue, allPromise, runs>>

\* The caller's single invocation, with any inputs and any unit behaviours.
Call ==
  /\ pc = "idle"
  /\ \E wp \in WaypointIds, ctx \in JourneyContexts, keys \in KeyLists,
        reduce \in BOOLEAN :
       \E pl \in PlansFor(keys) : Invoke(wp, ctx, keys, reduce, pl)

Next ==
  \/ Call
  \/ \E i \in 1..2 : SettleUnit(i)
  \/ AllResolveElement
  \/ AllReject
  \/ Then

Spec == Init /\ [][Next]_vars

\* ------------------------------------------------- two invocations at once
\* Unit behaviours for the invocations of TwoSpec: a unit resolves with
\* nothing or with one record naming some field, or rejects with its list.
SmallPlans(u, f) ==
  {p \in UnitPlans(u, f) :
     /\ p.kind # "never"
     /\ p.value.type \in {"undefined", "list"}
     /\ Len(p.value.items) <= 1
     /\ p.value.type = "list" => Len(p.value.items) = 1
     /\ \A n \in 1..Len(p.value.items) : p.value.items[n].field # Absent}

RECURSIVE SmallPlansUpTo(_, _)
SmallPlansUpTo(keys, n) ==
  IF n = 0 THEN {<<>>}
  ELSE {Append(pl, p) : pl \in SmallPlansUpTo(keys, n - 1), p \in SmallPlans(n, keys[n])}

\* module.exports(...) called for invocation k: dispatch, then the join.
Start(k, keys, reduce, pl) ==
  /\ runs[k].state = "idle"
  /\ LET queue == Dispatch(<<>>, keys)
     IN runs' = [runs EXCEPT ![k] =
                   [state |-> "invoked", keys |-> keys, reduce |-> reduce,
                    plan |-> pl, queue |-> queue,
                    all |-> IF Len(queue) # 0 THEN PromiseAll(queue) ELSE NoAll,
                    out |-> ResultingPromise(queue)]]
  /\ UNCHANGED engine

StartRun ==
  \E k \in {1, 2} :
    /\ runs[k].state = "idle"
    /\ \E keys \in KeyLists, reduce \in BOOLEAN :
         \E pl \in SmallPlansUpTo(keys, Len(keys)) : Start(k, keys, reduce, pl)

\* Unit i of invocation k settles and the reactions it triggers run: the
\* join's element function, and the .then reaction once the join settles.
UnitSettles(k, i) ==
  /\ runs[k].state = "invoked"
  /\ i \in 1..Len(runs[k].queue)
  /\ runs[k].queue[i].state = "pending"
  /\ LET r == runs[k]
         p == r.plan[i]
         all == IF p.kind = "resolve" THEN AllResolveElementFn(r.all, i, p.value)
                ELSE AllRejectFn(r.all, p.value)
     IN runs' = [runs EXCEPT ![k] =
                   [r EXCEPT
                      !.queue[i] = Settled(IF p.kind = "resolve" THEN "resolved"
                                           ELSE "rejected", RawPayload(p.value)),
                      !.all = all,
                      !.out = IF r.all.state = "pending" /\ all.state # "pending"
                              THEN ThenReaction(all, r.reduce) ELSE r.out]]
  /\ UNCHANGED engine

TwoNext ==
  \/ StartRun
  \/ \E k \in {1, 2}, i \in 1..2 : UnitSettles(k, i)

\* Two invocations of the engine, sequential or overlapping.
TwoSpec == Init /\ [][TwoNext]_vars

\* The event loop runs every queued microtask, and every unit whose
\* validator settles does settle.
FairSpec ==
  /\ Spec
  /\ \A i \in 1..2 : WF_vars(SettleUnit(i))
  /\ WF_vars(AllResolveElement)
  /\ WF_vars(AllReject)
  /\ WF_vars(Then)

TypeOK ==
  /\ pc \in {"idle", "invoked"}
  /\ outcome.state \in {"none", "pending", "resolved", "rejected"}
  /\ Len(validatorQueue) = Len(fieldValidators)

\* ------------------------------------------------------- claim vocabulary
Invoked == pc = "invoked"
Units == 1..Len(validatorQueue)
OutcomeProduced == outcome.state \in {"resolved", "rejected"}
Rejected == outcome.state = "rejected"
RejectedWithMapping == Rejected /\ outcome.payload.kind = "mapping"
Grouped == outcome.payload.grouped
KeysOf(g) == {g[j].key : j \in 1..Len(g)}

\* Every unit that settles has settled and every reaction has run.
Quiescent ==
  /\ Invoked
  /\ jobs = <<>>
  /\ \A i \in Units : plan[i].kind = "never" \/ validatorQueue[i].state # "pending"

AllUnitsSettle == \A i \in Units : plan[i].kind # "never"

\* The records unit i produces, whether it resolves or rejects with them.
ListItems(i) == IF plan[i].value.type = "list" THEN plan[i].value.items ELSE <<>>
Positions == {q \in Units \X (1..MaxListLen) : q[2] <= Len(ListItems(q[1]))}
ProducedRecords == {ListItems(q[1])[q[2]] : q \in Positions}
ProducedFields == {r.field : r \in ProducedRecords}

\* Units answer as the collaborator contract says: nothing, or a list of
\* records that each name a field.
WellFormedPlan ==
  \A i \in Units :
    /\ plan[i].value.type \in {"undefined", "list"}
    /\ \A p \in 1..Len(ListItems(i)) : ListItems(i)[p].field # Absent

\* C1: whenever some unit produces an error record (resolving or rejecting
\* with its list), the engine's outcome is a rejection whose payload is an
\* error mapping with exactly the fields of the produced records as keys and
\* no empty list.
C1_RejectsWithExactKeys ==
  (Invoked /\ WellFormedPlan /\ ProducedRecords # {} /\ OutcomeProduced) =>
    /\ RejectedWithMapping
    /\ KeysOf(Grouped) = ProducedFields
    /\ \A j \in 1..Len(Grouped) : Grouped[j].errors # <<>>

\* C2: the join waits for all units: an outcome exists only once every
\* dispatched unit has settled, and the records of every unit that settled
\* in a failed state are in the result.
C2_WaitsForAll ==
  OutcomeProduced =>
    /\ \A i \in Units : validatorQueue[i].state # "pending"
    /\ \A i \in Units : plan[i].kind = "reject" =>
         \A p \in 1..Len(ListItems(i)) :
           /\ RejectedWithMapping
           /\ \E j \in 1..Len(Grouped) :
                \E q \in 1..Len(Grouped[j].errors) :
                  Grouped[j].errors[q] = ListItems(i)[p]

OutcomeIsFinal == [][OutcomeProduced => outcome' = outcome]_vars

\* C3 (as stated): every invocation produces exactly one outcome, resolved
\* or rejected: an outcome is eventually produced, and once produced it
\* never changes.
C3_ExactlyOneOutcome ==
  /\ OutcomeIsFinal
  /\ Invoked ~> OutcomeProduced

\* C3 (amended): an invocation never produces more than one outcome, and it
\* produces one whenever every dispatched unit settles.
C3_OneOutcomeWhenUnitsSettle ==
  /\ OutcomeIsFinal
  /\ (Invoked /\ AllUnitsSettle) ~> OutcomeProduced

C3_Witness ==
  /\ Invoked /\ Len(validatorQueue) = 2 /\ AllUnitsSettle /\ Quiescent
  /\ OutcomeProduced

\* C4: whenever the engine rejects, the payload is an error mapping from
\* field names to non-empty lists, never a raw unit payload.
C4_RejectsOnlyWithMapping ==
  Rejected =>
    /\ outcome.payload.kind = "mapping"
    /\ Grouped # <<>>
    /\ \A j \in 1..Len(Grouped) : Grouped[j].errors # <<>>

\* The run in which the units settle in dispatch order.
RECURSIVE SettleInOrder(_, _)
SettleInOrder(all, i) ==
  IF i > Len(plan) THEN all
  ELSE SettleInOrder(
         CASE plan[i].kind = "resolve" -> AllResolveElementFn(all, i, plan[i].value)
           [] plan[i].kind = "reject" -> AllRejectFn(all, plan[i].value)
           [] OTHER -> all,
         i + 1)

InOrderOutcome ==
  LET all == SettleInOrder(PromiseAll(validatorQueue), 1)
  IN IF all.state = "pending" THEN PendingPromise
     ELSE ThenReaction(all, reduceErrors)

\* C5: the outcome does not depend on the order in which the units settle:
\* whatever the interleaving, it is the outcome of the run with the same
\* unit results in which the units settle in dispatch order.
C5_OrderIndependent ==
  (Invoked /\ Len(validatorQueue) # 0 /\ OutcomeProduced) => outcome = InOrderOutcome

\* Position <<i, p>> of the first record for key k in dispatch order.
Before(q, r) == q[1] < r[1] \/ (q[1] = r[1] /\ q[2] <= r[2])
PositionsOf(k) == {q \in Positions : PropertyKey(ListItems(q[1])[q[2]].field) = k}
FirstRecordFor(k) ==
  LET q == CHOOSE q \in PositionsOf(k) : \A r \in PositionsOf(k) : Before(q, r)
  IN ListItems(q[1])[q[2]]

\* C6: with reduceErrors, whenever the engine rejects, the payload is a
\* mapping in which every field's list holds exactly one record, the first
\* one produced for that field in dispatch order.
C6_ReducedToFirst ==
  (Rejected /\ reduceErrors) =>
    /\ outcome.payload.kind = "mapping"
    /\ \A j \in 1..Len(Grouped) :
         /\ Len(Grouped[j].errors) = 1
         /\ PositionsOf(Grouped[j].key) # {}
         /\ Grouped[j].errors[1] = FirstRecordFor(Grouped[j].key)

\* No unit produces an error record: each resolves with nothing or with an
\* empty list.
NoUnitProducesErrors ==
  \A i \in Units :
    /\ plan[i].kind = "resolve"
    /\ plan[i].value \in {Undefined, Falsy, List(<<>>)}

\* C7: when every unit settles without producing an error record, the engine
\* never rejects, and once the units have settled it has resolved without a
\* payload.
C7_NoErrorsResolves ==
  (Invoked /\ NoUnitProducesErrors) =>
    /\ ~Rejected
    /\ Quiescent => outcome = Settled("resolved", NoPayload)

C7_Witness ==
  /\ Invoked /\ Len(validatorQueue) = 2 /\ NoUnitProducesErrors /\ Quiescent
  /\ \E i \in Units : plan[i].value = List(<<>>)
  /\ outcome.state = "resolved"

\* C8: with an empty fieldValidators no unit is dispatched, queueValidator is
\* never called, nothing is waited on, and the engine has resolved by the
\* time the call returns.
C8_EmptyShortCircuits ==
  (Invoked /\ fieldValidators = <<>>) =>
    /\ validatorQueue = <<>>
    /\ calls = <<>>
    /\ allPromise.state = "none"
    /\ jobs = <<>>
    /\ outcome = Settled("resolved", NoPayload)

C8_Witness == Invoked /\ fieldValidators = <<>> /\ outcome.state = "resolved"

\* Unit i resolved with something that is not a list, or with an empty list.
NonListOrEmpty(i) ==
  plan[i].kind = "resolve" /\ (plan[i].value.type # "list" \/ plan[i].value.items = <<>>)

\* C9: a unit result that is not a list, or is an empty list, counts as no
\* errors: none of its content is in the mapping, the aggregation still
\* produces its outcome, and results of that kind alone give success.
C9_NonListIgnored ==
  (Invoked /\ allPromise.state = "fulfilled" /\ jobs = <<>>) =>
    /\ OutcomeProduced
    /\ (\A i \in Units : NonListOrEmpty(i)) => outcome = Settled("resolved", NoPayload)
    /\ \A j \in 1..Len(Grouped) : \A q \in 1..Len(Grouped[j].errors) :
         \E i \in Units : ~NonListOrEmpty(i) /\ \E p \in 1..Len(ListItems(i)) :
            ListItems(i)[p] = Grouped[j].errors[q]

C9_Witness ==
  /\ Invoked /\ allPromise.state = "fulfilled" /\ jobs = <<>>
  /\ \E i \in Units : plan[i].value.type = "record"
  /\ RejectedWithMapping

\* C10: a record without a `field` attribute is dropped: it is under no key
\* of the mapping, and records of that kind alone do not make the engine
\* reject.
C10_FieldlessDropped ==
  /\ RejectedWithMapping =>
       \A j \in 1..Len(Grouped) : \A q \in 1..Len(Grouped[j].errors) :
         Grouped[j].errors[q].field # Absent
  /\ (Invoked /\ \A r \in ProducedRecords : r.field = Absent) => ~Rejected

\* C11: if some dispatched unit never settles, the engine never produces an
\* outcome, whatever the other units do, also when another unit settles in
\* a failed state.
C11_StalledUnitStallsOutcome ==
  (Invoked /\ \E i \in Units : plan[i].kind = "never") => ~OutcomeProduced

\* The positions in S, in dispatch order (unit, then place in its list).
RECURSIVE InOrder(_)
InOrder(S) ==
  IF S = {} THEN <<>>
  ELSE LET q == CHOOSE q \in S : \A r \in S : Before(q, r)
       IN <<q>> \o InOrder(S \ {q})

\* All records produced for key k, in dispatch order.
RecordsFor(k) ==
  LET ps == InOrder(PositionsOf(k))
  IN [n \in 1..Len(ps) |-> ListItems(ps[n][1])[ps[n][2]]]

RECURSIVE TotalLen(_)
TotalLen(g) == IF g = <<>> THEN 0 ELSE Len(Head(g).errors) + TotalLen(Tail(g))

\* C12: without reduceErrors the rejected mapping loses and duplicates
\* nothing: the list at each key is exactly the records naming that field,
\* in unit order and then list order, every field with a record has its
\* list, and the mapping holds as many records as the unit lists do.
C12_NothingLostOrDuplicated ==
  (RejectedWithMapping /\ ~reduceErrors) =>
    /\ \A j \in 1..Len(Grouped) : Grouped[j].errors = RecordsFor(Grouped[j].key)
    /\ \A j, k \in 1..Len(Grouped) : Grouped[j].key = Grouped[k].key => j = k
    /\ \A f \in Fields : PositionsOf(f) # {} => f \in KeysOf(Grouped)
    /\ TotalLen(Grouped) = Cardinality(Positions)

C12_Witness ==
  /\ RejectedWithMapping /\ ~reduceErrors
  /\ \E j \in 1..Len(Grouped) :
       /\ Len(Grouped[j].errors) = 3
       /\ Grouped[j].errors[1].id \div 10 = 1
       /\ Grouped[j].errors[3].id \div 10 = 2
  /\ Len(Grouped) = 2

FirstPositionOf(k) == CHOOSE q \in PositionsOf(k) : \A r \in PositionsOf(k) : Before(q, r)

C14_OneUnitPerKeyInOrder ==
  Invoked =>
    /\ Len(calls) = Len(fieldValidators)
    /\ Len(validatorQueue) = Len(calls)
    /\ \A i \in 1..Len(calls) :
         /\ calls[i].field = fieldValidators[i]
         /\ calls[i].validators = ValidatorOf(fieldValidators[i])

C14_Witness ==
  /\ Invoked /\ fieldValidators = <<"b", "a">> /\ Len(calls) = 2
  /\ \A i \in Units : validatorQueue[i].state = "pending"
  /\ allPromise.state = "pending"

\* What the engine holds of unit i's result is the result the unit gave.
ResultUntouched(i) ==
  /\ validatorQueue[i].state # "pending" =>
       validatorQueue[i].payload = RawPayload(plan[i].value)
  /\ allPromise.values[i] \in {Undefined, plan[i].value}

\* C15: every queueValidator call gets the caller's waypointId and
\* journeyContext, and no step of the engine changes journeyContext,
\* fieldValidators or a unit's result.
C15_ContextPassedAndNothingMutated ==
  /\ [](Invoked =>
          /\ \A i \in 1..Len(calls) :
               /\ calls[i].waypointId = waypointId
               /\ calls[i].journeyContext = journeyContext
          /\ \A i \in Units : ResultUntouched(i))
  /\ [][Invoked => /\ waypointId' = waypointId
                   /\ journeyContext' = journeyContext
                   /\ fieldValidators' = fieldValidators
                   /\ calls' = calls
                   /\ plan' = plan]_vars

C15_Witness ==
  /\ Invoked /\ waypointId = "wp2" /\ journeyContext = "ctx2"
  /\ Len(calls) = 2 /\ RejectedWithMapping

\* The records the units of invocation k produce, and how many.
RunItems(k, i) ==
  IF runs[k].plan[i].value.type = "list" THEN runs[k].plan[i].value.items ELSE <<>>
RunPositions(k) ==
  {q \in (1..Len(runs[k].plan)) \X (1..MaxListLen) : q[2] <= Len(RunItems(k, q[1]))}
RunRecords(k) == {RunItems(k, q[1])[q[2]] : q \in RunPositions(k)}

\* Invocation k's aggregation has run.
Aggregated(k) == runs[k].all.state = "fulfilled"
RunGrouped(k) == runs[k].out.payload.grouped

\* C16: grouping is deterministic and local to the invocation: the mapping
\* of an invocation holds only keys and records of its own units (all of
\* them, once each, without reduceErrors), and two invocations over the same
\* unit results produce the same outcome, whether they overlap or not.
C16_GroupingIsInvocationLocal ==
  /\ \A k \in {1, 2} : Aggregated(k) =>
       /\ runs[k].out.state \in {"resolved", "rejected"}
       /\ \A j \in 1..Len(RunGrouped(k)) :
            /\ \E r \in RunRecords(k) : PropertyKey(r.field) = RunGrouped(k)[j].key
            /\ \A n \in 1..Len(RunGrouped(k)[j].errors) :
                 RunGrouped(k)[j].errors[n] \in RunRecords(k)
       /\ ~runs[k].reduce => TotalLen(RunGrouped(k)) = Cardinality(RunPositions(k))
  /\ (/\ Aggregated(1) /\ Aggregated(2)
      /\ runs[1].all.values = runs[2].all.values
      /\ runs[1].reduce = runs[2].reduce) => runs[1].out = runs[2].out

C16_Witness ==
  /\ Aggregated(1) /\ Aggregated(2)
  /\ runs[1].all.values = runs[2].all.values
  /\ runs[1].reduce = runs[2].reduce
  /\ runs[1].out.payload.kind = "mapping"
  /\ Len(runs[1].queue) = 2

JoinSettled == allPromise.state \in {"fulfilled", "rejected"}
Unreduced == ThenReaction(allPromise, FALSE)
Reduced == ThenReaction(allPromise, TRUE)

\* C17: reduceErrors changes neither the classification nor the keys: for the
\* same unit results the reduced outcome is a rejection exactly when the
\* unreduced one is, with the same keys in the same order, each holding the
\* head of the unreduced list; the engine's outcome is the one its flag
\* selects.
C17_ReduceKeepsKeys ==
  (Invoked /\ JoinSettled) =>
    /\ Reduced.state = Unreduced.state
    /\ Reduced.payload.kind = Unreduced.payload.kind
    /\ Len(Reduced.payload.grouped) = Len(Unreduced.payload.grouped)
    /\ \A j \in 1..Len(Unreduced.payload.grouped) :
         /\ Reduced.payload.grouped[j].key = Unreduced.payload.grouped[j].key
         /\ Reduced.payload.grouped[j].errors =
              <<Head(Unreduced.payload.grouped[j].errors)>>
    /\ OutcomeProduced => outcome = IF reduceErrors THEN Reduced ELSE Unreduced

C17_Witness ==
  /\ RejectedWithMapping /\ reduceErrors /\ Len(Grouped) = 2
  /\ \E j \in 1..Len(Grouped) : Cardinality(PositionsOf(Grouped[j].key)) >= 2

\* C18: records are grouped by their own `field`: every key of the rejected
\* mapping is the field of some record of some unit, every record sits under
\* the key its own field names, and every record's field is a key, also when
\* it is not the producing unit's field nor a key of fieldValidators.
C18_GroupedByOwnField ==
  RejectedWithMapping =>
    /\ \A j \in 1..Len(Grouped) :
         /\ \E r \in ProducedRecords : PropertyKey(r.field) = Grouped[j].key
         /\ \A n \in 1..Len(Grouped[j].errors) :
              PropertyKey(Grouped[j].errors[n].field) = Grouped[j].key
    /\ \A r \in ProducedRecords :
         \E j \in 1..Len(Grouped) :
           /\ Grouped[j].key = PropertyKey(r.field)
           /\ ~reduceErrors => \E n \in 1..Len(Grouped[j].errors) : Grouped[j].errors[n] = r

C18_Witness ==
  /\ RejectedWithMapping /\ fieldValidators = <<"a">>
  /\ KeysOf(Grouped) = {"b"}

\* C19: gatherErrors runs at most once, and only when every unit has
\* resolved; before every unit has resolved there is no mapping and no
\* outcome, so a mapping, once there, has a key for every record of every
\* unit.
C19_AggregatesOnceAfterAllResolved ==
  /\ gatherRuns <= 1
  /\ gatherRuns = 1 => \A i \in Units : validatorQueue[i].state = "resolved"
  /\ (Invoked /\ \E i \in Units : validatorQueue[i].state # "resolved") =>
       /\ outcome.payload.kind # "mapping"
       /\ ~OutcomeProduced
  /\ outcome.payload.kind = "mapping" =>
       /\ gatherRuns = 1
       /\ \A r \in ProducedRecords : PropertyKey(r.field) \in KeysOf(Grouped)
====
